---- MODULE Spec2Model ----
(***************************************************************************)
(* MyInfographic: the four-step wizard (client App), the api helpers it    *)
(* calls, and the express server behind them.                              *)
(*                                                                         *)
(* Strings that the code only compares or displays are TLA+ strings.       *)
(* Texts whose length or characters matter (typed text, extracted text)    *)
(* are sequences of one-character strings.  An optional value (a field     *)
(* that may be undefined) is the empty sequence or a one-element sequence. *)
(***************************************************************************)
EXTENDS Integers, Sequences, FiniteSets, TLC

VARIABLES
    step, file, pdfText, inputMode, textInput, options, showAdvanced,
    status, resultImage, error,
    pc, run, net,
    env, API_KEY, extCalls, llmDid, imageDid, inflight,
    calls, returned, outcome

clientVars == <<step, file, pdfText, inputMode, textInput, options,
                showAdvanced, status, resultImage, error, pc, run>>
ghostVars == <<calls, returned, outcome>>
extVars == <<extCalls, llmDid, imageDid, inflight>>
vars == <<clientVars, net, env, API_KEY, extVars, ghostVars>>

(***************************************************************************)
(* Values                                                                  *)
(***************************************************************************)
None == <<>>
Some(v) == <<v>>

Rep(c, n) == [i \in 1..n |-> c]

Min(a, b) == IF a < b THEN a ELSE b

MB == 1024 * 1024

\* hard ceiling and soft threshold of the client's file check, in bytes
HardCeiling == 50 * MB
SoftThreshold == 25 * MB
\* multer's upload limit, in bytes
ServerFileLimit == 10 * MB
\* minimum length of the typed text
MinTextLen == 100
\* prefix of the text embedded in the language-model request
TruncLen == 10000

PdfType == "application/pdf"

\* What pdf-parse makes of a document is a function of the document's bytes:
\* content "paper" parses to some text, "scan" parses to no text at all,
\* "blank" (pages without a text layer) parses to the page separators alone,
\* "broken" makes the parser throw.
PaperText == <<"p", "a", "p", "e", "r">>
BlankText == <<"\n", "\n">>

MkFile(n, s, t, c) == [name |-> n, size |-> s, type |-> t, content |-> c]

\* the documents a user may pick in the file dialog
Files ==
    { MkFile("small.pdf", 5 * MB, PdfType, "paper"),
      MkFile("scan.pdf", 5 * MB, PdfType, "scan"),
      MkFile("broken.pdf", 5 * MB, PdfType, "broken"),
      MkFile("large.pdf", HardCeiling, PdfType, "paper"),
      MkFile("over.pdf", HardCeiling + 1, PdfType, "paper"),
      MkFile("huge.pdf", 60 * MB, PdfType, "paper"),
      MkFile("image.png", 5 * MB, "image/png", "broken"),
      MkFile("big.png", 60 * MB, "image/png", "broken"),
      MkFile("paper.txt", 5 * MB, "text/plain", "paper") }

\* the texts a user may leave in the textarea
TextInputs ==
    { Rep("a", MinTextLen - 1), Rep("a", MinTextLen), Rep("a", 150),
      Rep(" ", MinTextLen) }

Languages == {"Deutsch", "English"}
Audiences == {"General public", "Expert researchers"}
Focuses == {"Balanced overview", "Results & findings"}
Terms == {"Include & Explain", "Exclude, simplify to context"}
StyleNotes == {"", "Minimalist design"}

DefaultOptions ==
    [language |-> "Deutsch", audience |-> "General public",
     focus |-> "Balanced overview", terms |-> "Include & Explain",
     styleNotes |-> ""]

\* String.prototype.trim on a text of blanks, line ends and letters
WhiteSpace == {" ", "\n"}

RECURSIVE TrimStart(_)
TrimStart(s) ==
    IF s # <<>> /\ Head(s) \in WhiteSpace THEN TrimStart(Tail(s)) ELSE s

RECURSIVE TrimEnd(_)
TrimEnd(s) ==
    IF s # <<>> /\ s[Len(s)] \in WhiteSpace THEN TrimEnd(SubSeq(s, 1, Len(s) - 1)) ELSE s

Trim(s) == TrimEnd(TrimStart(s))

(***************************************************************************)
(* Messages between the client's axios calls and the server                *)
(***************************************************************************)
EmptyReq ==
    [file |-> None, text |-> None, audience |-> None, terms |-> None,
     focus |-> None, language |-> None, styleNotes |-> None, prompt |-> None]

EmptyRes ==
    [text |-> None, prompt |-> None, imageUrl |-> None, error |-> None,
     llm |-> None, nanoBanana |-> None]

NoMsg == [dir |-> "none", route |-> "", code |-> 0, req |-> EmptyReq, res |-> EmptyRes]

Request(route, body) ==
    [dir |-> "req", route |-> route, code |-> 0, req |-> body, res |-> EmptyRes]

\* the answer to request m; the message keeps the request it answers
Response(m, code, body) == [m EXCEPT !.dir = "resp", !.code = code, !.res = body]

\* the request left without any response (connection refused, reset, ...)
Failure(m) == [m EXCEPT !.dir = "fail"]

(***************************************************************************)
(* Server: src/server/index.js                                             *)
(***************************************************************************)
\* process.env.LLM_API_KEY || process.env.NANO_BANANA_API_KEY ; an unset
\* variable and an empty one are both falsy, modelled as ""
EnvValues == {"", "key-A"}
Envs == [LLM_API_KEY : EnvValues, NANO_BANANA_API_KEY : EnvValues]
\* the two deployments the wizard is run against: no credential, one credential
RunEnvs ==
    { [LLM_API_KEY |-> "", NANO_BANANA_API_KEY |-> ""],
      [LLM_API_KEY |-> "key-A", NANO_BANANA_API_KEY |-> ""] }

\* API_KEY read from LLM_API_KEY alone
ApiKey_llmOnly(llmKey, nanoKey) == llmKey

ApiKey(llmKey, nanoKey) == IF llmKey # "" THEN llmKey ELSE nanoKey

\* !!API_KEY
Configured(key) == key # ""

\* truthiness of an optional string field and of an optional text field
TruthyStr(o) == o # None /\ o[1] # ""
TruthyText(o) == o # None /\ o[1] # <<>>

Json(code, body) == [code |-> code, res |-> body, ext |-> {}]

\* GET /api/status
StatusHandler(key) ==
    Json(200, [EmptyRes EXCEPT !.llm = Some(Configured(key)),
                               !.nanoBanana = Some(Configured(key))])

\* express's answer when no route matches the request
NotFoundHandler == Json(404, EmptyRes)

\* express's default error handler, reached when a middleware passes an error
DefaultErrorHandler == Json(500, EmptyRes)

\* pdf-parse on the document's bytes
PdfParse(f) ==
    CASE f.content = "paper" -> [ok |-> TRUE, text |-> PaperText]
      [] f.content = "scan" -> [ok |-> TRUE, text |-> <<>>]
      [] f.content = "blank" -> [ok |-> TRUE, text |-> BlankText]
      [] OTHER -> [ok |-> FALSE, text |-> <<>>]

\* multer: fileFilter on the declared type, then the fileSize limit
UploadAccepts(f) == f.type = PdfType /\ f.size <= ServerFileLimit

\* POST /api/upload
UploadHandler(req) ==
    IF req.file # None /\ ~UploadAccepts(req.file[1])
    THEN DefaultErrorHandler
    ELSE IF req.file = None
    THEN Json(400, [EmptyRes EXCEPT !.error = Some("No file uploaded")])
    ELSE LET data == PdfParse(req.file[1])
         IN  IF data.ok
             THEN Json(200, [EmptyRes EXCEPT !.text = Some(data.text)])
             ELSE Json(500, [EmptyRes EXCEPT !.error = Some("Failed to parse PDF")])

\* the template string sent to the language model: its four interpolations
SystemPrompt(text, audience, terms, focus) ==
    [pdfText |-> SubSeq(text, 1, Min(Len(text), TruncLen)),
     suffix |-> "... (truncated for context limit)",
     level |-> audience, terms |-> terms, focus |-> focus]

\* the calls the server makes to the outside while it handles one request:
\* the language model with the system prompt, the image service with the
\* directive.  extCalls holds those made for the message in net; llmDid and
\* imageDid hold what the called service did.
NoSystemPrompt == [pdfText |-> <<>>, suffix |-> "", level |-> "", terms |-> "", focus |-> ""]
LlmCall(systemPrompt) ==
    [service |-> "gemini-2.0-flash", request |-> systemPrompt, prompt |-> ""]
ImageCall(prompt) ==
    [service |-> "gemini-3-pro-image-preview", request |-> NoSystemPrompt,
     prompt |-> prompt]

\* Lexemes of a language-model reply
LB == "{"
RB == "}"
Directive == "Draw a poster"
PromptMember == "\"prompt\":\"Draw a poster\""
Prose == "Sure"
Num == "7"
Null == "null"
Lexemes == {LB, RB, PromptMember, Prose, Num, Null}

RECURSIVE Join(_)
Join(s) == IF s = <<>> THEN "" ELSE Head(s) \o Join(Tail(s))

\* a lazy pattern, /\{[\s\S]*?\}/: from the first "{" that has a "}" after
\* it to the nearest "}"
JsonMatch_lazy(content) ==
    LET opens == {i \in 1..Len(content) :
                    content[i] = LB /\ \E j \in (i + 1)..Len(content) : content[j] = RB}
    IN  IF opens = {} THEN None
        ELSE LET first == CHOOSE i \in opens : \A k \in opens : i <= k
                 closes == {j \in (first + 1)..Len(content) : content[j] = RB}
                 near == CHOOSE j \in closes : \A k \in closes : j <= k
             IN  Some(SubSeq(content, first, near))

\* content.match(/\{[\s\S]*\}/): from the first "{" that has a "}" after it
\* to the last "}"
JsonMatch(content) ==
    LET closes == {j \in 1..Len(content) : content[j] = RB}
        last == IF closes = {} THEN 0
                ELSE CHOOSE j \in closes : \A k \in closes : k <= j
        opens == {i \in 1..Len(content) : content[i] = LB /\ i < last}
    IN  IF opens = {} THEN None
        ELSE LET first == CHOOSE i \in opens : \A k \in opens : i <= k
             IN  Some(SubSeq(content, first, last))

\* JSON.parse on a lexeme sequence
JsonParse(s) ==
    CASE s = <<LB, PromptMember, RB>> ->
            [ok |-> TRUE, kind |-> "object", prompt |-> Some(Directive)]
      [] s = <<LB, RB>> -> [ok |-> TRUE, kind |-> "object", prompt |-> None]
      [] s = <<Num>> -> [ok |-> TRUE, kind |-> "number", prompt |-> None]
      [] s = <<Null>> -> [ok |-> TRUE, kind |-> "null", prompt |-> None]
      [] OTHER -> [ok |-> FALSE, kind |-> "error", prompt |-> None]

\* lines 112-119: the directive taken from the reply
ParseReply(content) ==
    LET jsonMatch == JsonMatch(content)
        parsed == JsonParse(IF jsonMatch # None THEN jsonMatch[1] ELSE content)
    IN  IF parsed.ok /\ parsed.kind # "null"
        THEN parsed.prompt
        ELSE Some(Join(content))

LlmReply(content) == [kind |-> "reply", content |-> content, message |-> ""]
LlmThrow(message) == [kind |-> "throw", content |-> <<>>, message |-> message]

\* POST /api/generate-prompt ; llm is what the language-model call does if made
GeneratePromptHandler(req, key, llm) ==
    IF ~(TruthyText(req.text) /\ TruthyStr(req.audience)
         /\ TruthyStr(req.terms) /\ TruthyStr(req.focus))
    THEN Json(400, [EmptyRes EXCEPT !.error = Some("Missing required parameters")])
    ELSE IF Configured(key)
    THEN LET call == LlmCall(SystemPrompt(req.text[1], req.audience[1],
                                          req.terms[1], req.focus[1]))
         IN  IF llm.kind = "reply"
             THEN [code |-> 200,
                   res |-> [EmptyRes EXCEPT !.prompt = ParseReply(llm.content)],
                   ext |-> {call}]
             ELSE [code |-> 500,
                   res |-> [EmptyRes EXCEPT !.error =
                              Some("Failed to generate prompt: " \o llm.message)],
                   ext |-> {call}]
    ELSE Json(200, [EmptyRes EXCEPT !.prompt =
                      Some("Mock prompt for " \o req.audience[1])])

\* What the image service can answer.  A 2xx answer carries data of one of
\* the shapes: no data, data without candidates, an empty candidates list, a
\* first candidate without content, a first candidate with a list of parts.
ImageOk(shape, parts) ==
    [kind |-> "ok", shape |-> shape, parts |-> parts, body |-> "", message |-> ""]
\* a non-2xx answer: axios rejects with error.response.data = body
ImageHttpError(body) ==
    [kind |-> "http_error", shape |-> "", parts |-> <<>>, body |-> body,
     message |-> "Request failed with status code 429"]
\* no answer at all: axios rejects without error.response
ImageNetError(message) ==
    [kind |-> "net_error", shape |-> "", parts |-> <<>>, body |-> "", message |-> message]

Part(inlineData, thought) == [inlineData |-> inlineData, thought |-> thought]

PlaceholderUrl == "https://placehold.co/600x800/8b5cf6/ffffff?text=Infographic+Generated"

\* parts.find(part => part.inlineData): thought parts are not skipped
RECURSIVE FindImagePart_anyInline(_)
FindImagePart_anyInline(parts) ==
    IF parts = <<>> THEN None
    ELSE IF Head(parts).inlineData # None
    THEN Some(Head(parts))
    ELSE FindImagePart_anyInline(Tail(parts))

\* parts.findLast(...): the last such part instead of the first
RECURSIVE FindImagePart_last(_)
FindImagePart_last(parts) ==
    IF parts = <<>> THEN None
    ELSE LET rest == FindImagePart_last(Tail(parts))
         IN  IF rest # None THEN rest
             ELSE IF Head(parts).inlineData # None /\ ~Head(parts).thought
             THEN Some(Head(parts))
             ELSE None

\* parts.find(part => part.inlineData && !part.thought)
RECURSIVE FindImagePart(_)
FindImagePart(parts) ==
    IF parts = <<>> THEN None
    ELSE IF Head(parts).inlineData # None /\ ~Head(parts).thought
    THEN Some(Head(parts))
    ELSE FindImagePart(Tail(parts))

\* Bodies of a non-2xx answer of the image service: a JSON document as the
\* service serialises it, the same document pretty-printed, a plain text, and
\* no body at all.
CompactJsonBody == "{\"error\":{\"code\":429}}"
SpacedJsonBody == "{ \"error\": { \"code\": 429 } }"
PlainTextBody == "Bad Gateway"
UpstreamBodies == {CompactJsonBody, SpacedJsonBody, PlainTextBody, ""}

\* error.response.data: axios parses a body that is JSON and leaves any other
\* body as the string it is
ResponseData(body) ==
    IF body \in {CompactJsonBody, SpacedJsonBody}
    THEN [kind |-> "object", value |-> CompactJsonBody]
    ELSE [kind |-> "string", value |-> body]

\* JSON.stringify: an object in its compact serialisation, a string quoted
JsonStringify(data) ==
    IF data.kind = "object" THEN data.value ELSE "\"" \o data.value \o "\""

\* the detail always taken from error.message
ErrorDetail_messageOnly(up) == up.message

\* error.response ? JSON.stringify(error.response.data) : error.message
ErrorDetail(up) ==
    IF up.kind = "http_error" THEN JsonStringify(ResponseData(up.body)) ELSE up.message

InfographicError(detail) ==
    [EmptyRes EXCEPT !.error = Some("Failed to generate infographic: " \o detail)]

\* lines 170-187: the image taken from a 2xx answer, or the error thrown
ExtractImage(up) ==
    IF up.shape \in {"nodata", "nocandidates", "nofirst"}
    THEN [ok |-> FALSE, imageUrl |-> "", message |-> "Invalid response structure"]
    ELSE IF up.shape = "nocontent"
    THEN [ok |-> FALSE, imageUrl |-> "",
          message |-> "Cannot read properties of undefined (reading 'parts')"]
    ELSE LET imagePart == FindImagePart(up.parts)
         IN  IF imagePart # None
             THEN [ok |-> TRUE,
                   imageUrl |-> "data:image/png;base64," \o imagePart[1].inlineData[1],
                   message |-> ""]
             ELSE [ok |-> FALSE, imageUrl |-> "", message |-> "No image data in response"]

\* POST /api/generate-infographic ; up is what the image service does if called
GenerateInfographicHandler(req, key, up) ==
    IF ~TruthyStr(req.prompt)
    THEN Json(400, [EmptyRes EXCEPT !.error = Some("Missing prompt")])
    ELSE IF Configured(key)
    THEN LET call == ImageCall(req.prompt[1])
         IN  CASE up.kind \in {"http_error", "net_error"} ->
                    [code |-> 500, res |-> InfographicError(ErrorDetail(up)),
                     ext |-> {call}]
               [] OTHER ->
                    LET image == ExtractImage(up)
                    IN  IF image.ok
                        THEN [code |-> 200,
                              res |-> [EmptyRes EXCEPT !.imageUrl = Some(image.imageUrl)],
                              ext |-> {call}]
                        ELSE [code |-> 500, res |-> InfographicError(image.message),
                              ext |-> {call}]
    ELSE Json(200, [EmptyRes EXCEPT !.imageUrl = Some(PlaceholderUrl)])

(***************************************************************************)
(* Client api helpers: uploadPDF, processText, generatePrompt,             *)
(* generateInfographic.  Each posts one request and resolves with the      *)
(* response body on a 2xx answer; axios rejects on any other answer and    *)
(* when no answer comes.                                                   *)
(***************************************************************************)
UploadRoute == "/api/upload"
ProcessTextRoute == "/api/process-text"
GeneratePromptRoute == "/api/generate-prompt"
GenerateInfographicRoute == "/api/generate-infographic"
StatusRoute == "/api/status"

\* the routes the server registers
ServerRoutes ==
    {StatusRoute, UploadRoute, GeneratePromptRoute, GenerateInfographicRoute}

uploadPDF(f) == Request(UploadRoute, [EmptyReq EXCEPT !.file = Some(f)])

processText(text) == Request(ProcessTextRoute, [EmptyReq EXCEPT !.text = Some(text)])

\* JSON.stringify leaves out a field whose value is undefined
generatePrompt(text, audience, terms, focus, language, styleNotes) ==
    Request(GeneratePromptRoute,
            [EmptyReq EXCEPT !.text = text, !.audience = audience, !.terms = terms,
                             !.focus = focus, !.language = language,
                             !.styleNotes = styleNotes])

generateInfographic(prompt) ==
    Request(GenerateInfographicRoute, [EmptyReq EXCEPT !.prompt = prompt])

Resolved(m) == m.dir = "resp" /\ m.code \in 200..299
\* a client that rejects on an error answer only and waits on when no answer
\* comes
Rejected_onlyAnswers(m) == m.dir = "resp" /\ m.code \notin 200..299

Rejected(m) == m.dir = "fail" \/ (m.dir = "resp" /\ m.code \notin 200..299)

\* err.message of the rejection
AxiosMessage(m) ==
    IF m.dir = "fail" THEN "Network Error"
    ELSE "Request failed with status code " \o ToString(m.code)

(***************************************************************************)
(* Wizard: App (src/unnamed/part_001)                                      *)
(***************************************************************************)
StatusUploading == "Uploading and analyzing PDF..."
StatusProcessing == "Processing your text..."
StatusPrompt == "Generating infographic prompt..."
StatusCreating == "Creating infographic with Nano Banana Pro..."
StatusCompleted == "Completed!"

ErrTooBig == "File size exceeds 50MB limit."
ErrNotPdf == "Only PDF files are allowed."
\* (the source's text starts with a warning sign)
WarnLarge == "Large file detected. Processing may take longer and results might be affected due to file size."
ErrNoFile == "Please upload a PDF file first."
ErrNoText == "Please enter some text first."
ErrNoImageUrl == "An error occurred: No image URL returned from server"

\* Requests of several callers that the server is handling at the same time:
\* per caller the message, what the outside services did for it, and whether
\* the other caller's request was being handled when this one was answered;
\* latest is the caller whose request the server took up last.
Callers == {1, 2}
NoSlot == [msg |-> NoMsg, llm |-> None, up |-> None, overlap |-> FALSE]
NoInflight == [slots |-> [i \in Callers |-> NoSlot], latest |-> 0]

\* the values startProcess closes over, and its local extractedText
NoRun ==
    [inputMode |-> "pdf", file |-> None, textInput |-> <<>>,
     options |-> DefaultOptions, extractedText |-> None]

Init ==
    /\ step = 1
    /\ file = None
    /\ pdfText = <<>>
    /\ inputMode = "pdf"
    /\ textInput = <<>>
    /\ options = DefaultOptions
    /\ showAdvanced = FALSE
    /\ status = ""
    /\ resultImage = ""
    /\ error = ""
    /\ pc = "idle"
    /\ run = NoRun
    /\ net = NoMsg
    /\ env \in RunEnvs
    /\ API_KEY = ApiKey(env.LLM_API_KEY, env.NANO_BANANA_API_KEY)
    /\ extCalls = {}
    /\ llmDid = None
    /\ imageDid = None
    /\ inflight = NoInflight
    /\ calls = <<>>
    /\ returned = <<>>
    /\ outcome = "none"

serverVars == <<net, env, API_KEY, extVars>>

\* a new message: nothing has been called for it yet
NoExt == extCalls' = {} /\ llmDid' = None /\ imageDid' = None /\ UNCHANGED inflight

\* ---- step 1 ----
\* the PDF / Text toggle buttons
setInputMode(mode) ==
    /\ step = 1
    /\ inputMode' = mode
    /\ error' = ""
    /\ UNCHANGED <<step, file, pdfText, textInput, options, showAdvanced, status,
                   resultImage, pc, run, serverVars, ghostVars>>

\* handleFileUpload without the size check
handleFileUpload_noCeiling(selectedFile) ==
    /\ step = 1
    /\ inputMode = "pdf"
    /\ IF selectedFile.type # PdfType
       THEN error' = ErrNotPdf /\ UNCHANGED file
       ELSE /\ error' = (IF selectedFile.size > SoftThreshold THEN WarnLarge ELSE "")
            /\ file' = Some(selectedFile)
    /\ UNCHANGED <<step, pdfText, inputMode, textInput, options, showAdvanced, status,
                   resultImage, pc, run, serverVars, ghostVars>>

\* handleFileUpload without the type check
handleFileUpload_anyType(selectedFile) ==
    /\ step = 1
    /\ inputMode = "pdf"
    /\ IF selectedFile.size > HardCeiling
       THEN error' = ErrTooBig /\ UNCHANGED file
       ELSE /\ error' = (IF selectedFile.size > SoftThreshold THEN WarnLarge ELSE "")
            /\ file' = Some(selectedFile)
    /\ UNCHANGED <<step, pdfText, inputMode, textInput, options, showAdvanced, status,
                   resultImage, pc, run, serverVars, ghostVars>>

\* handleFileUpload that drops the stored file when it rejects a selection
handleFileUpload_clearsOnReject(selectedFile) ==
    /\ step = 1
    /\ inputMode = "pdf"
    /\ IF selectedFile.size > HardCeiling
       THEN error' = ErrTooBig /\ file' = None
       ELSE IF selectedFile.type # PdfType
       THEN error' = ErrNotPdf /\ file' = None
       ELSE /\ error' = (IF selectedFile.size > SoftThreshold THEN WarnLarge ELSE "")
            /\ file' = Some(selectedFile)
    /\ UNCHANGED <<step, pdfText, inputMode, textInput, options, showAdvanced, status,
                   resultImage, pc, run, serverVars, ghostVars>>

\* the file input's onChange, rendered in pdf mode only
handleFileUpload(selectedFile) ==
    /\ step = 1
    /\ inputMode = "pdf"
    /\ IF selectedFile.size > HardCeiling
       THEN error' = ErrTooBig /\ UNCHANGED file
       ELSE IF selectedFile.type # PdfType
       THEN error' = ErrNotPdf /\ UNCHANGED file
       ELSE /\ error' = (IF selectedFile.size > SoftThreshold THEN WarnLarge ELSE "")
            /\ file' = Some(selectedFile)
    /\ UNCHANGED <<step, pdfText, inputMode, textInput, options, showAdvanced, status,
                   resultImage, pc, run, serverVars, ghostVars>>

\* the textarea's onChange, rendered in text mode only
setTextInput(value) ==
    /\ step = 1
    /\ inputMode = "text"
    /\ textInput' = value
    /\ error' = ""
    /\ UNCHANGED <<step, file, pdfText, inputMode, options, showAdvanced, status,
                   resultImage, pc, run, serverVars, ghostVars>>

\* the disabled attribute testing only that some text was typed
ContinueDisabled_anyText ==
    IF inputMode = "pdf" THEN file = None ELSE Len(textInput) < 1

\* the Continue button's disabled attribute
ContinueDisabled ==
    IF inputMode = "pdf" THEN file = None ELSE Len(textInput) < MinTextLen

Continue ==
    /\ step = 1
    /\ ~ContinueDisabled
    /\ step' = 2
    /\ UNCHANGED <<file, pdfText, inputMode, textInput, options, showAdvanced, status,
                   resultImage, error, pc, run, serverVars, ghostVars>>

\* ---- step 2 ----
\* the selects and the style-notes textarea; terms and styleNotes are rendered
\* only while the advanced settings are shown
setOptions(field, value) ==
    /\ step = 2
    /\ field \in {"terms", "styleNotes"} => showAdvanced
    /\ options' = [options EXCEPT ![field] = value]
    /\ UNCHANGED <<step, file, pdfText, inputMode, textInput, showAdvanced, status,
                   resultImage, error, pc, run, serverVars, ghostVars>>

toggleAdvanced ==
    /\ step = 2
    /\ showAdvanced' = ~showAdvanced
    /\ UNCHANGED <<step, file, pdfText, inputMode, textInput, options, status,
                   resultImage, error, pc, run, serverVars, ghostVars>>

Back ==
    /\ step = 2
    /\ step' = 1
    /\ UNCHANGED <<file, pdfText, inputMode, textInput, options, showAdvanced, status,
                   resultImage, error, pc, run, serverVars, ghostVars>>

\* startProcess that skips the extraction when a text is already held
startProcess_reuseText ==
    /\ step = 2
    /\ IF inputMode = "pdf" /\ file = None
       THEN /\ error' = ErrNoFile
            /\ UNCHANGED <<step, status, pc, run, net, ghostVars>>
       ELSE IF inputMode = "text" /\ Trim(textInput) = <<>>
       THEN /\ error' = ErrNoText
            /\ UNCHANGED <<step, status, pc, run, net, ghostVars>>
       ELSE /\ step' = 3
            /\ error' = ""
            /\ IF pdfText # <<>>
               THEN /\ run' = [inputMode |-> inputMode, file |-> file,
                               textInput |-> textInput, options |-> options,
                               extractedText |-> Some(pdfText)]
                    /\ status' = StatusPrompt
                    /\ net' = generatePrompt(Some(pdfText), Some(options.audience),
                                             Some(options.terms), Some(options.focus),
                                             Some(options.language),
                                             Some(options.styleNotes))
                    /\ pc' = "generatePrompt"
                    /\ calls' = <<(IF inputMode = "pdf" THEN "uploadPDF" ELSE "processText"),
                                  "generatePrompt">>
                    /\ returned' = <<(IF inputMode = "pdf" THEN "uploadPDF"
                                      ELSE "processText")>>
               ELSE /\ run' = [inputMode |-> inputMode, file |-> file,
                               textInput |-> textInput, options |-> options,
                               extractedText |-> None]
                    /\ returned' = <<>>
                    /\ IF inputMode = "pdf"
                       THEN /\ status' = StatusUploading
                            /\ net' = uploadPDF(file[1])
                            /\ pc' = "uploadPDF"
                            /\ calls' = <<"uploadPDF">>
                       ELSE /\ status' = StatusProcessing
                            /\ net' = processText(textInput)
                            /\ pc' = "processText"
                            /\ calls' = <<"processText">>
            /\ outcome' = "running"
    /\ NoExt
    /\ UNCHANGED <<file, pdfText, inputMode, textInput, options, showAdvanced,
                   resultImage, env, API_KEY>>

\* Generate Infographic: startProcess up to its first await
startProcess ==
    /\ step = 2
    /\ IF inputMode = "pdf" /\ file = None
       THEN /\ error' = ErrNoFile
            /\ UNCHANGED <<step, status, pc, run, net, ghostVars>>
       ELSE IF inputMode = "text" /\ Trim(textInput) = <<>>
       THEN /\ error' = ErrNoText
            /\ UNCHANGED <<step, status, pc, run, net, ghostVars>>
       ELSE /\ step' = 3
            /\ error' = ""
            /\ run' = [inputMode |-> inputMode, file |-> file, textInput |-> textInput,
                       options |-> options, extractedText |-> None]
            /\ IF inputMode = "pdf"
               THEN /\ status' = StatusUploading
                    /\ net' = uploadPDF(file[1])
                    /\ pc' = "uploadPDF"
                    /\ calls' = <<"uploadPDF">>
               ELSE /\ status' = StatusProcessing
                    /\ net' = processText(textInput)
                    /\ pc' = "processText"
                    /\ calls' = <<"processText">>
            /\ returned' = <<>>
            /\ outcome' = "running"
    /\ NoExt
    /\ UNCHANGED <<file, pdfText, inputMode, textInput, options, showAdvanced,
                   resultImage, env, API_KEY>>

\* afterExtract passing the typed text on instead of the text returned
afterExtract_typedText ==
    /\ pc \in {"uploadPDF", "processText"}
    /\ Resolved(net)
    /\ LET extractedText == net.res.text
       IN  /\ run' = [run EXCEPT !.extractedText = extractedText]
           /\ pdfText' = (IF extractedText = None THEN <<>> ELSE extractedText[1])
           /\ status' = StatusPrompt
           /\ net' = generatePrompt(Some(run.textInput),
                                    Some(run.options.audience), Some(run.options.terms),
                                    Some(run.options.focus), Some(run.options.language),
                                    Some(run.options.styleNotes))
    /\ pc' = "generatePrompt"
    /\ calls' = Append(calls, "generatePrompt")
    /\ returned' = Append(returned, pc)
    /\ NoExt
    /\ UNCHANGED <<step, file, inputMode, textInput, options, showAdvanced,
                   resultImage, error, env, API_KEY, outcome>>

\* startProcess resumed after uploadPDF or processText resolved
afterExtract ==
    /\ pc \in {"uploadPDF", "processText"}
    /\ Resolved(net)
    /\ LET extractedText == net.res.text
       IN  /\ run' = [run EXCEPT !.extractedText = extractedText]
           /\ pdfText' = (IF extractedText = None THEN <<>> ELSE extractedText[1])
           /\ status' = StatusPrompt
           /\ net' = generatePrompt(extractedText,
                                    Some(run.options.audience), Some(run.options.terms),
                                    Some(run.options.focus), Some(run.options.language),
                                    Some(run.options.styleNotes))
    /\ pc' = "generatePrompt"
    /\ calls' = Append(calls, "generatePrompt")
    /\ returned' = Append(returned, pc)
    /\ NoExt
    /\ UNCHANGED <<step, file, inputMode, textInput, options, showAdvanced,
                   resultImage, error, env, API_KEY, outcome>>

\* afterPrompt with an http client that resolves on every answer
afterPrompt_anyAnswer ==
    /\ pc = "generatePrompt"
    /\ net.dir = "resp"
    /\ status' = StatusCreating
    /\ net' = generateInfographic(net.res.prompt)
    /\ pc' = "generateInfographic"
    /\ calls' = Append(calls, "generateInfographic")
    /\ returned' = Append(returned, pc)
    /\ NoExt
    /\ UNCHANGED <<step, file, pdfText, inputMode, textInput, options, showAdvanced,
                   resultImage, error, run, env, API_KEY, outcome>>

\* startProcess resumed after generatePrompt resolved
afterPrompt ==
    /\ pc = "generatePrompt"
    /\ Resolved(net)
    /\ status' = StatusCreating
    /\ net' = generateInfographic(net.res.prompt)
    /\ pc' = "generateInfographic"
    /\ calls' = Append(calls, "generateInfographic")
    /\ returned' = Append(returned, pc)
    /\ NoExt
    /\ UNCHANGED <<step, file, pdfText, inputMode, textInput, options, showAdvanced,
                   resultImage, error, run, env, API_KEY, outcome>>

\* startProcess resumed after generateInfographic resolved
afterInfographic ==
    /\ pc = "generateInfographic"
    /\ Resolved(net)
    /\ IF ~TruthyStr(net.res.imageUrl)
       THEN /\ error' = ErrNoImageUrl
            /\ outcome' = "failed"
            /\ UNCHANGED <<step, status, resultImage>>
       ELSE /\ resultImage' = net.res.imageUrl[1]
            /\ status' = StatusCompleted
            /\ step' = 4
            /\ outcome' = "complete"
            /\ UNCHANGED error
    /\ pc' = "idle"
    /\ run' = NoRun
    /\ net' = NoMsg
    /\ returned' = Append(returned, pc)
    /\ NoExt
    /\ UNCHANGED <<file, pdfText, inputMode, textInput, options, showAdvanced,
                   env, API_KEY, calls>>

\* catch with the step reset to the options form
catch_setStep2 ==
    /\ pc # "idle"
    /\ Rejected(net)
    /\ error' = "An error occurred: " \o AxiosMessage(net)
    /\ step' = 2
    /\ pc' = "idle"
    /\ run' = NoRun
    /\ net' = NoMsg
    /\ outcome' = "failed"
    /\ NoExt
    /\ UNCHANGED <<file, pdfText, inputMode, textInput, options, showAdvanced,
                   status, resultImage, env, API_KEY, calls, returned>>

\* the catch block, entered when an awaited call rejected
catch ==
    /\ pc # "idle"
    /\ Rejected(net)
    /\ error' = "An error occurred: " \o AxiosMessage(net)
    /\ pc' = "idle"
    /\ run' = NoRun
    /\ net' = NoMsg
    /\ outcome' = "failed"
    /\ NoExt
    /\ UNCHANGED <<step, file, pdfText, inputMode, textInput, options, showAdvanced,
                   status, resultImage, env, API_KEY, calls, returned>>

\* Try Again shown on the processing view as well
TryAgain_always ==
    /\ step = 3
    /\ step' = 2
    /\ UNCHANGED <<file, pdfText, inputMode, textInput, options, showAdvanced, status,
                   resultImage, error, pc, run, serverVars, ghostVars>>

\* ---- step 3 ---- Try Again, rendered once error is set
TryAgain ==
    /\ step = 3
    /\ error # ""
    /\ step' = 2
    /\ UNCHANGED <<file, pdfText, inputMode, textInput, options, showAdvanced, status,
                   resultImage, error, pc, run, serverVars, ghostVars>>

\* reset that keeps the result image
reset_keepsImage ==
    /\ step = 4
    /\ step' = 1
    /\ file' = None
    /\ pdfText' = <<>>
    /\ status' = ""
    /\ error' = ""
    /\ UNCHANGED <<resultImage, inputMode, textInput, options, showAdvanced, pc, run,
                   serverVars, ghostVars>>

\* reset that also restores the default options
reset_defaultOptions ==
    /\ step = 4
    /\ step' = 1
    /\ file' = None
    /\ pdfText' = <<>>
    /\ resultImage' = ""
    /\ status' = ""
    /\ error' = ""
    /\ options' = DefaultOptions
    /\ UNCHANGED <<inputMode, textInput, showAdvanced, pc, run, serverVars, ghostVars>>

\* ---- step 4 ---- Start Over
reset ==
    /\ step = 4
    /\ step' = 1
    /\ file' = None
    /\ pdfText' = <<>>
    /\ resultImage' = ""
    /\ status' = ""
    /\ error' = ""
    /\ UNCHANGED <<inputMode, textInput, options, showAdvanced, pc, run, serverVars,
                   ghostVars>>

(***************************************************************************)
(* The server answering the request in flight                              *)
(***************************************************************************)
Answer(r, llm, up) ==
    /\ net' = Response(net, r.code, r.res)
    /\ extCalls' = r.ext
    /\ llmDid' = (IF r.ext # {} THEN llm ELSE None)
    /\ imageDid' = (IF r.ext # {} THEN up ELSE None)
    /\ UNCHANGED <<clientVars, env, API_KEY, inflight, ghostVars>>

ServeStatus ==
    /\ net.dir = "req" /\ net.route = StatusRoute
    /\ Answer(StatusHandler(API_KEY), None, None)

ServeUpload ==
    /\ net.dir = "req" /\ net.route = UploadRoute
    /\ Answer(UploadHandler(net.req), None, None)

ServeGeneratePrompt(llmOutcomes) ==
    /\ net.dir = "req" /\ net.route = GeneratePromptRoute
    /\ \E llm \in llmOutcomes :
          Answer(GeneratePromptHandler(net.req, API_KEY, llm), Some(llm), None)

ServeGenerateInfographic(imageOutcomes) ==
    /\ net.dir = "req" /\ net.route = GenerateInfographicRoute
    /\ \E up \in imageOutcomes :
          Answer(GenerateInfographicHandler(net.req, API_KEY, up), None, Some(up))

ServeNotFound ==
    /\ net.dir = "req" /\ net.route \notin ServerRoutes
    /\ Answer(NotFoundHandler, None, None)

\* the request or its answer is lost on the way
NetworkError ==
    /\ net.dir = "req"
    /\ net' = Failure(net)
    /\ UNCHANGED <<clientVars, env, API_KEY, extVars, ghostVars>>

(***************************************************************************)
(* Spec: one wizard instance against the server                            *)
(***************************************************************************)
\* what the language model and the image service may do during a run
RunLlmOutcomes ==
    { LlmReply(<<LB, PromptMember, RB>>), LlmReply(<<Prose, LB, PromptMember, RB>>),
      LlmReply(<<LB, RB>>), LlmReply(<<Prose>>), LlmThrow("fetch failed") }

ImageA == "iVBORw0KGgoA"
ImageB == "R0lGODlhAQAB"

RunImageOutcomes ==
    { ImageOk("parts", <<Part(None, TRUE), Part(Some(ImageA), FALSE)>>),
      ImageOk("parts", <<Part(Some(ImageB), TRUE), Part(None, FALSE)>>),
      ImageOk("parts", <<>>),
      ImageOk("parts", <<Part(None, FALSE)>>),
      ImageOk("nofirst", <<>>),
      ImageOk("nocandidates", <<>>),
      ImageOk("nodata", <<>>),
      ImageOk("nocontent", <<>>),
      ImageHttpError(CompactJsonBody),
      ImageNetError("socket hang up") }

User ==
    \/ \E mode \in {"pdf", "text"} : setInputMode(mode)
    \/ \E f \in Files : handleFileUpload(f)
    \/ \E t \in TextInputs : setTextInput(t)
    \/ Continue
    \/ \E v \in Languages : setOptions("language", v)
    \/ \E v \in Audiences : setOptions("audience", v)
    \/ \E v \in Focuses : setOptions("focus", v)
    \/ \E v \in Terms : setOptions("terms", v)
    \/ \E v \in StyleNotes : setOptions("styleNotes", v)
    \/ toggleAdvanced
    \/ Back
    \/ startProcess
    \/ TryAgain
    \/ reset

Pipeline == afterExtract \/ afterPrompt \/ afterInfographic \/ catch

Server ==
    \/ ServeUpload
    \/ ServeGeneratePrompt(RunLlmOutcomes)
    \/ ServeGenerateInfographic(RunImageOutcomes)
    \/ ServeNotFound
    \/ NetworkError

Next == User \/ Pipeline \/ Server

Spec == Init /\ [][Next]_vars

\* LiveSpec: every request is eventually answered or lost, and the runtime
\* resumes startProcess once the call it awaits has settled
LiveSpec == Init /\ [][Next]_vars /\ WF_vars(Server) /\ WF_vars(Pipeline)

(***************************************************************************)
(* SrvSpec: the server alone, answering requests of any caller             *)
(***************************************************************************)
\* longest language-model reply, in lexemes, and longest parts list
MaxReplyLen == 4
MaxParts == 3

SeqsUpTo(S, n) == UNION {[1..k -> S] : k \in 0..n}

\* the documents any caller may post
PostedFiles == Files \cup {MkFile("blank.pdf", 5 * MB, PdfType, "blank")}
OptFiles == {None} \cup {Some(f) : f \in PostedFiles}
OptTexts == {None, Some(<<>>), Some(PaperText)}
OptAudiences == {None, Some(""), Some("General public")}
OptTerms == {None, Some("Include & Explain")}
OptFocuses == {None, Some("Balanced overview")}
OptLanguages == {None, Some("Deutsch")}
OptStyleNotes == {None, Some("Minimalist design")}
OptPrompts == {None, Some(""), Some(Directive), Some("Mock prompt for General public")}

Bodies(route) ==
    CASE route = UploadRoute -> {[EmptyReq EXCEPT !.file = f] : f \in OptFiles}
      [] route = GeneratePromptRoute ->
            {[EmptyReq EXCEPT !.text = t, !.audience = a, !.terms = tm, !.focus = fo,
                              !.language = la, !.styleNotes = sn] :
                t \in OptTexts, a \in OptAudiences, tm \in OptTerms, fo \in OptFocuses,
                la \in OptLanguages, sn \in OptStyleNotes}
      [] route = GenerateInfographicRoute ->
            {[EmptyReq EXCEPT !.prompt = pr] : pr \in OptPrompts}
      [] route = ProcessTextRoute ->
            {[EmptyReq EXCEPT !.text = t] : t \in OptTexts}
      [] OTHER -> {EmptyReq}

AllLlmOutcomes ==
    {LlmReply(c) : c \in SeqsUpTo(Lexemes, MaxReplyLen)} \cup {LlmThrow("fetch failed")}

Parts == {Part(d, th) : d \in {None, Some(ImageA), Some(ImageB)}, th \in BOOLEAN}

AllImageOutcomes ==
    {ImageOk("parts", ps) : ps \in SeqsUpTo(Parts, MaxParts)}
    \cup {ImageOk(sh, <<>>) : sh \in {"nodata", "nocandidates", "nofirst", "nocontent"}}
    \cup {ImageHttpError(body) : body \in UpstreamBodies}
    \cup {ImageNetError("socket hang up")}

SrvInit ==
    /\ step = 1
    /\ file = None
    /\ pdfText = <<>>
    /\ inputMode = "pdf"
    /\ textInput = <<>>
    /\ options = DefaultOptions
    /\ showAdvanced = FALSE
    /\ status = ""
    /\ resultImage = ""
    /\ error = ""
    /\ pc = "idle"
    /\ run = NoRun
    /\ net = NoMsg
    /\ env \in Envs
    /\ API_KEY = ApiKey(env.LLM_API_KEY, env.NANO_BANANA_API_KEY)
    /\ extCalls = {}
    /\ llmDid = None
    /\ imageDid = None
    /\ inflight = NoInflight
    /\ calls = <<>>
    /\ returned = <<>>
    /\ outcome = "none"

\* some caller sends a request
DirectRequest ==
    /\ net.dir = "none"
    /\ \E route \in ServerRoutes \cup {ProcessTextRoute} :
          \E body \in Bodies(route) : net' = Request(route, body)
    /\ NoExt
    /\ UNCHANGED <<clientVars, env, API_KEY, ghostVars>>

\* the caller takes the answer
DirectReceive ==
    /\ net.dir = "resp"
    /\ net' = NoMsg
    /\ NoExt
    /\ UNCHANGED <<clientVars, env, API_KEY, ghostVars>>

SrvNext ==
    \/ DirectRequest
    \/ DirectReceive
    \/ ServeStatus
    \/ ServeUpload
    \/ ServeGeneratePrompt(AllLlmOutcomes)
    \/ ServeGenerateInfographic(AllImageOutcomes)
    \/ ServeNotFound

SrvSpec == SrvInit /\ [][SrvNext]_vars

(***************************************************************************)
(* PromptSpec: /api/generate-prompt alone, with texts around the length of *)
(* the prefix the handler embeds and every choice of the options           *)
(***************************************************************************)
\* a text of exactly the prefix length and one a character longer
FullText == Rep("a", TruncLen)
LongText == Rep("a", TruncLen + 1)
PromptTexts == {PaperText, FullText, LongText}

PromptBodies ==
    {generatePrompt(Some(t), Some(a), Some(tm), Some(fo), Some(la), Some(sn)).req :
        t \in PromptTexts, a \in Audiences, tm \in Terms, fo \in Focuses,
        la \in Languages, sn \in StyleNotes}

\* some caller posts to /api/generate-prompt
PromptRequest ==
    /\ net.dir = "none"
    /\ \E body \in PromptBodies : net' = Request(GeneratePromptRoute, body)
    /\ NoExt
    /\ UNCHANGED <<clientVars, env, API_KEY, ghostVars>>

PromptNext ==
    \/ PromptRequest
    \/ DirectReceive
    \/ ServeGeneratePrompt(RunLlmOutcomes)

PromptSpec == SrvInit /\ [][PromptNext]_vars

(***************************************************************************)
(* ConcSpec: the server handling the requests of two runs at once.  A      *)
(* handler runs up to its await (the parser, the language model, the image *)
(* service, the mock's timer), other requests are taken up meanwhile, and  *)
(* it resumes with what it awaited.                                        *)
(***************************************************************************)
\* the requests of the two runs: each run has its own document, text,
\* options and directive
RunRequests(i) ==
    IF i = 1
    THEN { uploadPDF(MkFile("small.pdf", 5 * MB, PdfType, "paper")),
           generatePrompt(Some(PaperText), Some("General public"),
                          Some("Include & Explain"), Some("Balanced overview"),
                          Some("Deutsch"), Some("")),
           generateInfographic(Some(Directive)) }
    ELSE { uploadPDF(MkFile("broken.pdf", 5 * MB, PdfType, "broken")),
           generatePrompt(Some(BlankText), Some("Expert researchers"),
                          Some("Exclude, simplify to context"),
                          Some("Results & findings"), Some("English"),
                          Some("Minimalist design")),
           generateInfographic(None) }

\* the route handler for a request
Handle(m, key, llm, up) ==
    CASE m.route = StatusRoute -> StatusHandler(key)
      [] m.route = UploadRoute -> UploadHandler(m.req)
      [] m.route = GeneratePromptRoute -> GeneratePromptHandler(m.req, key, llm)
      [] m.route = GenerateInfographicRoute -> GenerateInfographicHandler(m.req, key, up)
      [] OTHER -> NotFoundHandler

\* a handler that reads the request from a variable of the module, set by
\* whichever request was taken up last
FrameOf_shared(i) == inflight.slots[inflight.latest].msg

\* req of the handler invocation for caller i: a parameter of the callback
FrameOf(i) == inflight.slots[i].msg

Other(i) == CHOOSE j \in Callers : j # i

ConcInit ==
    /\ step = 1
    /\ file = None
    /\ pdfText = <<>>
    /\ inputMode = "pdf"
    /\ textInput = <<>>
    /\ options = DefaultOptions
    /\ showAdvanced = FALSE
    /\ status = ""
    /\ resultImage = ""
    /\ error = ""
    /\ pc = "idle"
    /\ run = NoRun
    /\ net = NoMsg
    /\ env \in Envs
    /\ API_KEY = ApiKey(env.LLM_API_KEY, env.NANO_BANANA_API_KEY)
    /\ extCalls = {}
    /\ llmDid = None
    /\ imageDid = None
    /\ inflight = NoInflight
    /\ calls = <<>>
    /\ returned = <<>>
    /\ outcome = "none"

concFrame == <<clientVars, net, env, API_KEY, extCalls, llmDid, imageDid, ghostVars>>

\* run i sends a request
ConcSend(i) ==
    /\ inflight.slots[i].msg.dir = "none"
    /\ \E m \in RunRequests(i) :
          inflight' = [inflight EXCEPT !.slots[i] = [NoSlot EXCEPT !.msg = m]]
    /\ UNCHANGED concFrame

\* the server takes the request up: the handler runs to its await
ConcAccept(i) ==
    /\ inflight.slots[i].msg.dir = "req"
    /\ inflight' = [inflight EXCEPT !.slots[i].msg.dir = "await", !.latest = i]
    /\ UNCHANGED concFrame

\* the handler resumes with what it awaited and answers
ConcFinish(i) ==
    /\ inflight.slots[i].msg.dir = "await"
    /\ \E llm \in RunLlmOutcomes : \E up \in RunImageOutcomes :
          LET r == Handle(FrameOf(i), API_KEY, llm, up)
              asked == r.ext # {}
              route == inflight.slots[i].msg.route
          IN  inflight' = [inflight EXCEPT !.slots[i] =
                  [msg |-> Response(inflight.slots[i].msg, r.code, r.res),
                   llm |-> IF asked /\ route = GeneratePromptRoute THEN Some(llm) ELSE None,
                   up |-> IF asked /\ route = GenerateInfographicRoute THEN Some(up) ELSE None,
                   overlap |-> inflight.slots[Other(i)].msg.dir = "await"]]
    /\ UNCHANGED concFrame

\* run i takes the answer
ConcReceive(i) ==
    /\ inflight.slots[i].msg.dir = "resp"
    /\ inflight' = [inflight EXCEPT !.slots[i] = NoSlot]
    /\ UNCHANGED concFrame

ConcNext ==
    \E i \in Callers : ConcSend(i) \/ ConcAccept(i) \/ ConcFinish(i) \/ ConcReceive(i)

ConcSpec == ConcInit /\ [][ConcNext]_vars

(***************************************************************************)
(* Properties                                                              *)
(***************************************************************************)
ExtractionStages == {"uploadPDF", "processText"}
ExtractionRoutes == {UploadRoute, ProcessTextRoute}

IsPrefix(s, t) == Len(s) <= Len(t) /\ s = SubSeq(t, 1, Len(s))

\* position of a status string in the run
StatusRank(s) ==
    CASE s \in {StatusUploading, StatusProcessing} -> 1
      [] s = StatusPrompt -> 2
      [] s = StatusCreating -> 3
      [] s = StatusCompleted -> 4
      [] OTHER -> 0

\* the stage whose successful return precedes a request to the route
StageBefore(route) ==
    CASE route = GeneratePromptRoute -> ExtractionRoutes
      [] route = GenerateInfographicRoute -> {GeneratePromptRoute}
      [] OTHER -> {}

\* a request leaves the client in this step
Sends == net'.dir = "req" /\ net' # net

C1_Calls ==
    /\ calls # <<>> =>
          /\ calls[1] \in ExtractionStages
          /\ IsPrefix(calls, <<calls[1], "generatePrompt", "generateInfographic">>)
    /\ pc # "idle" => /\ calls # <<>>
                      /\ pc = calls[Len(calls)]
                      /\ StatusRank(status) = Len(calls)
    /\ outcome = "complete" /\ step = 4 => status = StatusCompleted

C1_Step ==
    /\ Sends =>
          IF net'.route \in ExtractionRoutes
          THEN pc = "idle" /\ Len(calls') = 1
          ELSE /\ Resolved(net)
               /\ net.route \in StageBefore(net'.route)
               /\ Len(calls') = Len(calls) + 1
    /\ pc # "idle" => StatusRank(status') >= StatusRank(status)
    /\ pc # "idle" /\ pc' = "idle" /\ step' = 4 =>
          StatusRank(status') = 4 /\ Len(calls) = 3

\* C1: within a run the stages are called in the order extraction,
\* generatePrompt, generateInfographic, each at most once and only after the
\* stage before it resolved, and the status string only moves forward through
\* the four texts.
C1_StageOrder == []C1_Calls /\ [][C1_Step]_vars

C1_Witness ==
    /\ outcome = "complete"
    /\ calls = <<"uploadPDF", "generatePrompt", "generateInfographic">>
    /\ status = StatusCompleted

C2_Failed ==
    outcome = "failed" =>
        /\ pc = "idle"
        /\ net.dir = "none"
        /\ step # 4
        /\ step = 3 => error # ""

C2_Step ==
    /\ pc # "idle" /\ Rejected(net) =>
          /\ pc' = "idle"
          /\ step' = 3
          /\ error' # ""
          /\ net'.dir = "none"
          /\ calls' = calls
    /\ outcome = "failed" /\ Sends =>
          step = 2 /\ Len(calls') = 1 /\ net'.route \in ExtractionRoutes

\* C2: when a stage call rejects, the run ends at step 3 with a non-empty
\* error; no further stage of that run is called, nothing is sent again until
\* the user starts a new run from step 2, and the failed run never shows step 4.
C2_FailureEndsRun == []C2_Failed /\ [][C2_Step]_vars

C2_Witness ==
    /\ outcome = "failed"
    /\ step = 3
    /\ calls = <<"uploadPDF", "generatePrompt">>
    /\ returned = <<"uploadPDF">>

C3_Exposed ==
    /\ resultImage # "" => step = 4 /\ error = ""
    /\ outcome = "failed" => resultImage = ""
    /\ step = 4 =>
          /\ resultImage # ""
          /\ outcome = "complete"
          /\ Len(returned) = 3
          /\ returned = calls

C3_Step ==
    step # 4 /\ step' = 4 =>
        /\ pc = "generateInfographic"
        /\ Resolved(net)
        /\ TruthyStr(net.res.imageUrl)
        /\ resultImage' = net.res.imageUrl[1]
        /\ Len(returned) = 2

\* C3: a result image is held only at step 4 and then with no error, a failed
\* run leaves none, and step 4 is entered only when the third stage of a run
\* whose first two stages resolved answers with a non-empty imageUrl.
C3_NoPartialArtifact == []C3_Exposed /\ [][C3_Step]_vars

C3_Witness ==
    /\ step = 4
    /\ resultImage = "data:image/png;base64," \o ImageA
    /\ error = ""

\* the image service answered 2xx without an image: no first candidate, or
\* no part that carries inlineData and is not a thought
NoImage(up) ==
    /\ up.kind = "ok"
    /\ \/ up.shape # "parts"
       \/ \A i \in 1..Len(up.parts) :
             up.parts[i].inlineData = None \/ up.parts[i].thought

AnsweredNoImage ==
    /\ net.dir = "resp"
    /\ net.route = GenerateInfographicRoute
    /\ imageDid # None
    /\ NoImage(imageDid[1])

C4_Response ==
    AnsweredNoImage =>
        /\ net.code = 500
        /\ net.res.imageUrl = None
        /\ net.res.error # None

C4_Step ==
    AnsweredNoImage /\ pc = "generateInfographic" =>
        /\ pc' = "idle"
        /\ outcome' = "failed"
        /\ step' = 3
        /\ error' # ""
        /\ resultImage' = ""

\* C4: an image-service answer without an image part, or without a first
\* candidate, makes /api/generate-infographic answer 500 with an error and no
\* imageUrl, and the run that asked ends failed at step 3 with no result image.
C4_NoImageFails == []C4_Response /\ [][C4_Step]_vars

C4_Witness ==
    /\ AnsweredNoImage
    /\ pc = "generateInfographic"
    /\ imageDid[1].shape = "parts"
    /\ Len(imageDid[1].parts) = 2
    /\ net.code = 500

Oversized(f) == f.size > HardCeiling

C5_Stored ==
    /\ file # None => ~Oversized(file[1])
    /\ run.file # None => ~Oversized(run.file[1])
    /\ net.req.file # None => ~Oversized(net.req.file[1])

C5_Step ==
    \A f \in Files :
        Oversized(f) /\ handleFileUpload(f) =>
            /\ error' = ErrTooBig
            /\ net' = net /\ net.dir = "none"
            /\ pc' = pc /\ pc = "idle"
            /\ file' = file
            /\ calls' = calls

\* C5: selecting a document above the 50 MB ceiling only sets the size-limit
\* error: nothing is sent for it, it is never the stored file, and so no
\* upload, prompt or image request is ever made on its behalf.
C5_OversizedRejected == []C5_Stored /\ [][C5_Step]_vars

C5_Witness ==
    /\ error = ErrTooBig
    /\ file = None
    /\ step = 1
    /\ net.dir = "none"

TextRunRoutes == {ProcessTextRoute, GeneratePromptRoute, GenerateInfographicRoute}

\* C6: a run in text mode is started, and every request of it is sent, only
\* while the text held has at least 100 characters; a shorter text never
\* reaches processText or generatePrompt.
C6_ShortTextNeverSent ==
    /\ pc # "idle" /\ run.inputMode = "text" =>
          /\ Len(run.textInput) >= MinTextLen
          /\ run.textInput = textInput
    /\ net.dir = "req" /\ net.route \in TextRunRoutes /\ run.inputMode = "text" =>
          Len(textInput) >= MinTextLen
    /\ net.dir = "req" /\ net.route = ProcessTextRoute =>
          Len(net.req.text[1]) >= MinTextLen
    /\ step = 2 /\ inputMode = "text" => Len(textInput) >= MinTextLen

C6_Witness ==
    /\ pc = "processText"
    /\ net.dir = "req"
    /\ Len(net.req.text[1]) = MinTextLen

(***************************************************************************)
(* Properties of the server's handlers (SrvSpec)                           *)
(***************************************************************************)
Answered(route) == net.dir = "resp" /\ net.route = route

\* C7: as stated, a request to /api/generate-prompt that lacks the text or one
\* of language, audience, focus, terms is answered 400 before any call to the
\* language model.  The handler never reads language.
C7_Original ==
    Answered(GeneratePromptRoute)
    /\ ~(TruthyText(net.req.text) /\ TruthyStr(net.req.language)
         /\ TruthyStr(net.req.audience) /\ TruthyStr(net.req.focus)
         /\ TruthyStr(net.req.terms))
    => net.code = 400 /\ extCalls = {}

NoCredential == env.LLM_API_KEY = "" /\ env.NANO_BANANA_API_KEY = ""

ValidPromptRequest ==
    /\ TruthyText(net.req.text)
    /\ TruthyStr(net.req.audience)
    /\ TruthyStr(net.req.terms)
    /\ TruthyStr(net.req.focus)

\* C8: with neither LLM_API_KEY nor NANO_BANANA_API_KEY set the server calls
\* no outside service; every valid prompt request is answered with exactly
\* "Mock prompt for " + audience, every valid image request with the fixed
\* placeholder URL, and /api/status reports both flags false; with either
\* variable set both flags are true.
C8_Fallback ==
    /\ NoCredential => extCalls = {} /\ llmDid = None /\ imageDid = None
    /\ NoCredential /\ Answered(GeneratePromptRoute) /\ ValidPromptRequest =>
          /\ net.code = 200
          /\ net.res = [EmptyRes EXCEPT !.prompt =
                          Some("Mock prompt for " \o net.req.audience[1])]
    /\ NoCredential /\ Answered(GenerateInfographicRoute) /\ TruthyStr(net.req.prompt) =>
          /\ net.code = 200
          /\ net.res = [EmptyRes EXCEPT !.imageUrl = Some(PlaceholderUrl)]
    /\ Answered(StatusRoute) =>
          /\ net.code = 200
          /\ net.res.llm = Some(~NoCredential)
          /\ net.res.nanoBanana = Some(~NoCredential)

C8_Witness ==
    /\ NoCredential
    /\ Answered(GeneratePromptRoute)
    /\ net.res.prompt = Some("Mock prompt for General public")

C8_WitnessStatus ==
    /\ env.LLM_API_KEY = "" /\ env.NANO_BANANA_API_KEY # ""
    /\ Answered(StatusRoute)
    /\ net.res.llm = Some(TRUE)

\* the reply the language model gave to the request in net
Replied == Answered(GeneratePromptRoute) /\ llmDid # None /\ llmDid[1].kind = "reply"

\* indices of the first "{" followed by a "}" and of the last "}"
LastClose(c) ==
    LET closes == {j \in 1..Len(c) : c[j] = RB}
    IN  IF closes = {} THEN 0 ELSE CHOOSE j \in closes : \A k \in closes : k <= j

FirstOpen(c) ==
    LET opens == {i \in 1..Len(c) : c[i] = LB /\ i < LastClose(c)}
    IN  IF opens = {} THEN 0 ELSE CHOOSE i \in opens : \A k \in opens : i <= k

\* the text handed to JSON.parse: the span from the first "{" to the last "}",
\* or the whole reply when there is no such span
ParsedSpan(c) ==
    IF FirstOpen(c) = 0 THEN c ELSE SubSeq(c, FirstOpen(c), LastClose(c))

\* some stretch of the reply is a JSON object with a prompt member
ContainsPromptObject(c) ==
    \E i \in 1..Len(c) : \E j \in i..Len(c) :
        SubSeq(c, i, j) = <<LB, PromptMember, RB>>

ContainsObject(c) ==
    \E i \in 1..Len(c) : \E j \in i..Len(c) :
        SubSeq(c, i, j) \in {<<LB, PromptMember, RB>>, <<LB, RB>>}

\* C10 as stated: a reply never makes the handler answer with an error; a
\* reply that contains a parseable JSON object with a prompt yields that
\* prompt, and a reply that holds no JSON at all yields the raw reply.
C10_Original ==
    Replied =>
        /\ net.code = 200
        /\ ContainsPromptObject(llmDid[1].content) => net.res.prompt = Some(Directive)
        /\ ~ContainsObject(llmDid[1].content)
              /\ llmDid[1].content \notin {<<Num>>, <<Null>>} =>
              net.res.prompt = Some(Join(llmDid[1].content))

\* C10 amended: a reply never makes the handler answer with an error; when the
\* span from the first "{" to the last "}" (the whole reply when there is no
\* such span) is JSON other than null, the prompt member of that value is the
\* directive (none when the value has no such member), and otherwise the
\* whole raw reply is the directive.
C10_LenientParse ==
    Replied =>
        LET c == llmDid[1].content
            span == ParsedSpan(c)
        IN  /\ net.code = 200
            /\ net.res.error = None
            /\ span = <<LB, PromptMember, RB>> => net.res.prompt = Some(Directive)
            /\ span \in {<<LB, RB>>, <<Num>>} => net.res.prompt = None
            /\ span \notin {<<LB, PromptMember, RB>>, <<LB, RB>>, <<Num>>} =>
                  net.res.prompt = Some(Join(c))

C10_Witness ==
    /\ Replied
    /\ llmDid[1].content = <<Prose, LB, PromptMember, RB>>
    /\ net.res.prompt = Some(Directive)

(***************************************************************************)
(* The end-to-end scenario in text mode                                    *)
(***************************************************************************)
ErrNetwork == "An error occurred: Network Error"

\* C9 as stated: a text-mode run on a 150-character text with the default
\* options and no credential, whose requests were not lost on the way, ends at
\* step 4 holding the placeholder image URL.
C9_Original ==
    /\ inputMode = "text"
    /\ textInput = Rep("a", 150)
    /\ options = DefaultOptions
    /\ NoCredential
    /\ calls # <<>> /\ calls[1] = "processText"
    /\ pc = "idle"
    /\ step \in {3, 4}
    /\ error # ErrNetwork
    => step = 4 /\ resultImage = PlaceholderUrl


(***************************************************************************)
(* The image taken from the image service's answer                         *)
(***************************************************************************)
\* the image service answered the request in net with a list of parts
AnsweredParts ==
    /\ Answered(GenerateInfographicRoute)
    /\ imageDid # None
    /\ imageDid[1].kind = "ok"
    /\ imageDid[1].shape = "parts"

\* positions of the parts that carry inlineData and are not thoughts
ImagePositions(parts) ==
    {i \in 1..Len(parts) : parts[i].inlineData # None /\ ~parts[i].thought}

\* C11: when the image service answers with a list of parts, the imageUrl
\* returned is "data:image/png;base64," followed by the data of the first
\* part in list order that carries inlineData and is not a thought; thought
\* parts and parts without inlineData before it are passed over, and when no
\* part qualifies no imageUrl is returned.
C11_FirstImagePart ==
    AnsweredParts =>
        LET parts == imageDid[1].parts
            at == ImagePositions(parts)
        IN  IF at = {}
            THEN net.res.imageUrl = None
            ELSE LET first == CHOOSE i \in at : \A k \in at : i <= k
                 IN  /\ net.code = 200
                     /\ net.res.error = None
                     /\ net.res.imageUrl =
                            Some("data:image/png;base64," \o parts[first].inlineData[1])

C11_Witness ==
    /\ AnsweredParts
    /\ imageDid[1].parts =
          <<Part(Some(ImageB), TRUE), Part(None, FALSE), Part(Some(ImageA), FALSE)>>
    /\ net.res.imageUrl = Some("data:image/png;base64," \o ImageA)

(***************************************************************************)
(* The request built for the language model                                *)
(***************************************************************************)
\* the language model was called for the request in net
AskedLlm == Answered(GeneratePromptRoute) /\ extCalls # {}

\* C12 as stated: the text embedded in the language-model request is the
\* first min(length, 10000) characters of the request's text, and the request
\* carries the truncation marker exactly when the text is longer than 10000
\* characters.  The template appends the marker to every text.
C12_Original ==
    AskedLlm =>
        \A call \in extCalls :
            LET text == net.req.text[1]
            IN  /\ call.request.pdfText = SubSeq(text, 1, Min(Len(text), TruncLen))
                /\ call.request.suffix # "" <=> Len(text) > TruncLen

\* the embedded text alone: the prefix is as stated, for a short and for a
\* long text
C12_Prefix ==
    AskedLlm =>
        \A call \in extCalls :
            LET text == net.req.text[1]
            IN  call.request.pdfText = SubSeq(text, 1, Min(Len(text), TruncLen))

C12_WitnessLong ==
    /\ AskedLlm
    /\ Len(net.req.text[1]) = TruncLen + 1
    /\ \E call \in extCalls : Len(call.request.pdfText) = TruncLen

\* the language-model calls /api/generate-prompt makes for a request body
LlmCallsFor(body) == GeneratePromptHandler(body, API_KEY, llmDid[1]).ext

\* C13 as stated: the language-model request depends on every field the
\* client sends, so a request that differs from the one in net only in its
\* language, or only in its styleNotes, gives a different language-model
\* request.  The template interpolates text, audience, terms and focus only.
C13_Original ==
    AskedLlm =>
        /\ \A la \in {Some(l) : l \in Languages} :
              la # net.req.language =>
                  LlmCallsFor([net.req EXCEPT !.language = la]) # extCalls
        /\ \A sn \in {Some(n) : n \in StyleNotes} :
              sn # net.req.styleNotes =>
                  LlmCallsFor([net.req EXCEPT !.styleNotes = sn]) # extCalls

\* the fields the template does interpolate: each one changes the request
C13_TemplateFields ==
    AskedLlm =>
        /\ LlmCallsFor(net.req) = extCalls
        /\ \A a \in {Some(x) : x \in Audiences} :
              a # net.req.audience =>
                  LlmCallsFor([net.req EXCEPT !.audience = a]) # extCalls
        /\ \A tm \in {Some(x) : x \in Terms} :
              tm # net.req.terms =>
                  LlmCallsFor([net.req EXCEPT !.terms = tm]) # extCalls
        /\ \A fo \in {Some(x) : x \in Focuses} :
              fo # net.req.focus =>
                  LlmCallsFor([net.req EXCEPT !.focus = fo]) # extCalls
        /\ LlmCallsFor([net.req EXCEPT !.text = Some(<<"x">>)]) # extCalls

(***************************************************************************)
(* The text the extraction stage returns                                   *)
(***************************************************************************)
\* pdf-parse finds no text in the document
YieldsNoText(f) == PdfParse(f).ok /\ Trim(PdfParse(f).text) = <<>>

\* C14 as stated: a 200 answer of /api/upload carries a non-empty text, and a
\* document that yields no text is not answered 200.  The handler returns
\* whatever text the parser found.
C14_Original ==
    Answered(UploadRoute) =>
        /\ net.code = 200 => TruthyText(net.res.text)
        /\ net.req.file # None /\ YieldsNoText(net.req.file[1]) => net.code # 200

\* the same without the empty string: a 200 answer carries some text that is
\* not white space alone
C14_NotBlank ==
    Answered(UploadRoute) /\ net.code = 200 =>
        net.res.text # None /\ Trim(net.res.text[1]) # <<>>

(***************************************************************************)
(* The error the wizard shows for a failed stage                           *)
(***************************************************************************)
\* a stage call of the run is about to reject on an error answer whose body
\* carries the server's error string
RejectsWithServerError ==
    /\ pc # "idle"
    /\ Rejected(net)
    /\ net.dir = "resp"
    /\ net.res.error # None

C15_Step ==
    RejectsWithServerError => error' = "An error occurred: " \o net.res.error[1]

\* C15 as stated: when a stage fails on an error answer of the server, the
\* error the wizard then holds is the catch block's prefix followed by the
\* error string of that answer.  The catch block reads err.message, which for
\* an error answer is axios's own text and not the body's error string.
C15_Original == [][C15_Step]_vars

\* what the wizard holds instead
C15_AxiosStep ==
    RejectsWithServerError =>
        error' = "An error occurred: Request failed with status code " \o ToString(net.code)

C15_AxiosMessage == [][C15_AxiosStep]_vars

(***************************************************************************)
(* Failures of the image-service call                                      *)
(***************************************************************************)
\* the image service was called for the request in net
AskedImage == Answered(GenerateInfographicRoute) /\ imageDid # None

\* the messages of the errors the handler throws itself on a 2xx answer
LocalMessages ==
    { "No image data in response", "Invalid response structure",
      "Cannot read properties of undefined (reading 'parts')" }

C16_WitnessNoAnswer ==
    /\ AskedImage
    /\ imageDid[1].kind = "net_error"
    /\ net.res.error = Some("Failed to generate infographic: socket hang up")

(***************************************************************************)
(* Two runs at once (ConcSpec)                                             *)
(***************************************************************************)
\* what the outside services did for caller i's request; when none was
\* called the handler's answer does not depend on it
LlmDidFor(i) ==
    IF inflight.slots[i].llm # None THEN inflight.slots[i].llm[1] ELSE LlmThrow("")
ImageDidFor(i) ==
    IF inflight.slots[i].up # None THEN inflight.slots[i].up[1] ELSE ImageNetError("")

C17_OwnAnswer ==
    /\ API_KEY = ApiKey(env.LLM_API_KEY, env.NANO_BANANA_API_KEY)
    /\ \A i \in Callers :
          LET m == inflight.slots[i].msg
              own == Handle([m EXCEPT !.dir = "req"], API_KEY, LlmDidFor(i), ImageDidFor(i))
          IN  m.dir = "resp" =>
                /\ m.code = own.code
                /\ m.res = own.res
                /\ m.route \in {r.route : r \in RunRequests(i)}
                /\ m.req \in {r.req : r \in RunRequests(i)}

C17_Step ==
    /\ API_KEY' = API_KEY
    /\ \A i \in Callers :
          inflight'.slots[i] # inflight.slots[i] =>
              inflight'.slots[Other(i)] = inflight.slots[Other(i)]

\* C17: the credential is never written after startup, a step of the server
\* on one run's request leaves the other run's request and answer as they
\* are, and under every interleaving the answer to a request is the one its
\* handler gives for that request's own body, the credential and the outside
\* service's reply to it.
C17_RunsIndependent == []C17_OwnAnswer /\ [][C17_Step]_vars

\* run 1's prompt request was answered while run 2's request, taken up after
\* it, was still being handled
C17_Witness ==
    /\ inflight.slots[1].msg.dir = "resp"
    /\ inflight.slots[1].msg.route = GeneratePromptRoute
    /\ inflight.slots[1].overlap
    /\ inflight.latest = 2
    /\ inflight.slots[1].msg.res.prompt = Some(Directive)
    /\ inflight.slots[2].msg.dir = "await"
    /\ inflight.slots[2].msg.route = GeneratePromptRoute

(***************************************************************************)
(* The one source of a run                                                 *)
(***************************************************************************)
C18_Source ==
    /\ calls # <<>> =>
          /\ calls[1] \in ExtractionStages
          /\ \A k \in 2..Len(calls) : calls[k] \notin ExtractionStages
    /\ pc # "idle" =>
          /\ calls[1] = "uploadPDF" <=> run.inputMode = "pdf"
          /\ calls[1] = "processText" <=> run.inputMode = "text"
          /\ run.inputMode = inputMode
    /\ pc = "uploadPDF" => net.route = UploadRoute /\ net.req.file = run.file
    /\ pc = "processText" =>
          net.route = ProcessTextRoute /\ net.req.text = Some(run.textInput)
    /\ pc = "generatePrompt" => net.req.text = run.extractedText

C18_Step ==
    /\ Sends /\ net'.route \in ExtractionRoutes =>
          /\ pc = "idle"
          /\ IF inputMode = "pdf"
             THEN net' = uploadPDF(file[1])
             ELSE net' = processText(textInput)
    /\ Sends /\ net'.route = GeneratePromptRoute =>
          /\ net.route \in ExtractionRoutes
          /\ Resolved(net)
          /\ net'.req.text = net.res.text

\* C18: a run calls exactly one of uploadPDF and processText, once, as its
\* first stage: uploadPDF with the selected file when the input mode is pdf at
\* the moment the run starts, processText with the typed text when it is
\* text; the text sent to generatePrompt is the text that call returned.
C18_OneSource == []C18_Source /\ [][C18_Step]_vars

C18_Witness ==
    /\ pc = "generatePrompt"
    /\ net.dir = "req"
    /\ calls = <<"uploadPDF", "generatePrompt">>
    /\ net.req.text = Some(PaperText)
    /\ textInput = Rep("a", 150)

C18_WitnessText ==
    /\ pc = "processText"
    /\ file # None
    /\ net.req.file = None
    /\ net.req.text = Some(Rep("a", 150))

(***************************************************************************)
(* Documents whose declared type is not application/pdf                    *)
(***************************************************************************)
NotPdf(f) == f.type # PdfType

\* no document of another type is held, sent or being worked on
C19_Held ==
    /\ file # None => ~NotPdf(file[1])
    /\ run.file # None => ~NotPdf(run.file[1])
    /\ net.req.file # None => ~NotPdf(net.req.file[1])

\* what /api/upload answers when it is sent the document all the same
UploadAnswer(f) == UploadHandler([EmptyReq EXCEPT !.file = Some(f)])

C19_OriginalStep ==
    \A f \in Files :
        NotPdf(f) /\ handleFileUpload(f) => error' = ErrNotPdf /\ file' = file

\* C19 as stated: selecting a document whose declared type is not
\* application/pdf sets the error 'Only PDF files are allowed.' and stores
\* nothing, and the server answers an upload of it with a validation error
\* without parsing it.  The size check comes first: a document of another
\* type above the ceiling gets the size error.
C19_Original ==
    /\ []C19_Held
    /\ [][C19_OriginalStep]_vars
    /\ [](\A f \in Files : NotPdf(f) => UploadAnswer(f).code \in 400..599)

C19_Step ==
    \A f \in Files :
        NotPdf(f) /\ handleFileUpload(f) =>
            /\ error' = (IF f.size > HardCeiling THEN ErrTooBig ELSE ErrNotPdf)
            /\ file' = file
            /\ net' = net /\ net.dir = "none"
            /\ pc' = pc /\ pc = "idle"
            /\ calls' = calls

\* the upload filter's error reaches express's default error handler: 500,
\* no text, and not the answer the handler gives once the parser has run
C19_Filter ==
    \A f \in Files :
        NotPdf(f) =>
            /\ UploadAnswer(f) = DefaultErrorHandler
            /\ UploadAnswer(f).code = 500
            /\ UploadAnswer(f).res.text = None
            /\ UploadAnswer(f).res.error # Some("Failed to parse PDF")

\* C19 amended: a document whose declared type is not application/pdf is
\* never stored, never sent and never starts a run: selecting it only sets an
\* error, 'Only PDF files are allowed.' when it is within the 50 MB ceiling
\* and 'File size exceeds 50MB limit.' when it is above; the server's upload
\* filter refuses it before the parser runs, and the request is answered 500
\* without a text.
C19_NotPdfRejected == []C19_Held /\ [][C19_Step]_vars /\ []C19_Filter

C19_Witness ==
    /\ error = ErrNotPdf
    /\ file # None
    /\ file[1].name = "small.pdf"
    /\ step = 1

\* the same seen from the server: any caller's upload of such a document
C19_ServerFilter ==
    Answered(UploadRoute) /\ net.req.file # None /\ NotPdf(net.req.file[1]) =>
        net.code = 500 /\ net.res = EmptyRes

C19_WitnessServer ==
    /\ Answered(UploadRoute)
    /\ net.req.file # None
    /\ net.req.file[1].name = "paper.txt"
    /\ net.code = 500

(***************************************************************************)
(* Documents between the soft threshold and the hard ceiling               *)
(***************************************************************************)
\* a PDF the client accepts with the large-file warning
Warned(f) == f.type = PdfType /\ f.size > SoftThreshold /\ f.size <= HardCeiling

\* the upload of a run on such a document has been answered
WarnedUploadAnswered ==
    /\ pc = "uploadPDF"
    /\ net.dir = "resp"
    /\ Warned(run.file[1])
    /\ PdfParse(run.file[1]).ok

\* C20 as stated: a PDF above 25 MB and not above 50 MB is stored with a
\* warning, and a run on it passes the upload's size check, so that when the
\* document parses the upload resolves with its text and the run goes on to
\* generatePrompt.  The server's upload limit is 10 MB.
C20_Original ==
    WarnedUploadAnswered =>
        /\ Resolved(net)
        /\ net.res.text = Some(PdfParse(run.file[1]).text)

\* the client's half: the document is stored and the warning shown
C20_AcceptedStep ==
    \A f \in Files :
        Warned(f) /\ handleFileUpload(f) => file' = Some(f) /\ error' = WarnLarge

C20_Accepted == [][C20_AcceptedStep]_vars

\* what happens instead: the upload is answered 500 and the run fails there
C20_RunFailsStep ==
    WarnedUploadAnswered =>
        /\ net.code = 500
        /\ error' = "An error occurred: Request failed with status code 500"
        /\ outcome' = "failed"
        /\ calls' = <<"uploadPDF">>

C20_RunFails == [][C20_RunFailsStep]_vars

C20_WitnessAnswered == WarnedUploadAnswered /\ run.file[1].size = HardCeiling

(***************************************************************************)
(* Restart after a failed run                                              *)
(***************************************************************************)
\* the run has failed and the error view is shown
FailedView == outcome = "failed" /\ step = 3

C21_Idle ==
    outcome = "failed" =>
        /\ pc = "idle"
        /\ net = NoMsg
        /\ run = NoRun

C21_Step ==
    \* the error view offers Try Again and nothing else
    /\ FailedView =>
          /\ step' = 2
          /\ UNCHANGED <<file, pdfText, inputMode, textInput, options, showAdvanced,
                         status, resultImage, error, pc, run, net, ghostVars>>
    \* the next request after a failure is the extraction of a new run
    /\ outcome = "failed" /\ Sends =>
          /\ step = 2 /\ step' = 3
          /\ error' = ""
          /\ net' = (IF inputMode = "pdf" THEN uploadPDF(file[1])
                     ELSE processText(textInput))
          /\ calls' = <<(IF inputMode = "pdf" THEN "uploadPDF" ELSE "processText")>>
          /\ returned' = <<>>
          /\ run'.extractedText = None
          /\ outcome' = "running"
    \* each later stage is given the answer of this run's stage before it
    /\ Sends /\ net'.route = GeneratePromptRoute =>
          /\ Resolved(net) /\ net.route \in ExtractionRoutes
          /\ net'.req.text = net.res.text
          /\ Len(returned) = 0
    /\ Sends /\ net'.route = GenerateInfographicRoute =>
          /\ Resolved(net) /\ net.route = GeneratePromptRoute
          /\ net'.req.prompt = net.res.prompt
          /\ Len(returned) = 1

\* C21: a failed run leaves nothing in flight; from its error view the only
\* step is Try Again, which changes nothing but the step; the next request
\* sent after a failure is the extraction request of a new run, started from
\* step 2 with the error cleared, and every later stage of that run is given
\* the answer of that run's own previous stage, never a text or directive a
\* failed run had obtained.
C21_ManualRestart == []C21_Idle /\ [][C21_Step]_vars

\* a restarted run on the same document uploads it again, although the run
\* before it had extracted the text and failed later
C21_Witness ==
    /\ pc = "uploadPDF"
    /\ net.dir = "req"
    /\ net.req.file # None /\ net.req.file[1].name = "small.pdf"
    /\ pdfText = PaperText
    /\ calls = <<"uploadPDF">>
    /\ error = ""
    /\ step = 3

(***************************************************************************)
(* Termination of a run                                                    *)
(***************************************************************************)
InProgress == pc # "idle"

Complete == pc = "idle" /\ outcome = "complete" /\ step = 4 /\ error = ""
Failed == pc = "idle" /\ outcome = "failed" /\ step = 3 /\ error # ""

\* C22: when every request is eventually answered or lost, a run that has
\* started eventually ends, either complete at step 4 without an error or
\* failed at step 3 with an error, and never as both.
C22_Terminates ==
    /\ InProgress ~> (Complete \/ Failed)
    /\ [](~(Complete /\ Failed))

C22_Witness ==
    /\ InProgress
    /\ pc = "generateInfographic"
    /\ net.dir = "req"

\* without the assumption: a run that has started always ends
C22_NoFairness == InProgress ~> (Complete \/ Failed)

(***************************************************************************)
(* The directive handed from the Synthesizer to the Generator              *)
(***************************************************************************)
\* C23 as stated: every 200 answer of /api/generate-prompt carries a
\* non-empty prompt, so a run never posts to /api/generate-infographic
\* without one and never gets the answer 'Missing prompt'.  A reply that
\* parses to a value without a prompt member is answered 200 with no prompt.
C23_Original ==
    /\ Answered(GeneratePromptRoute) /\ net.code = 200 => TruthyStr(net.res.prompt)
    /\ pc = "generateInfographic" => TruthyStr(net.req.prompt)
    /\ ~(/\ pc = "generateInfographic"
         /\ Answered(GenerateInfographicRoute)
         /\ net.res.error = Some("Missing prompt"))

\* the fallback half: without a credential the prompt is never missing
C23_Fallback ==
    NoCredential =>
        /\ Answered(GeneratePromptRoute) /\ net.code = 200 => TruthyStr(net.res.prompt)
        /\ pc = "generateInfographic" => TruthyStr(net.req.prompt)

\* a run got 'Missing prompt' from the Generator
C23_WitnessMissing ==
    /\ pc = "generateInfographic"
    /\ Answered(GenerateInfographicRoute)
    /\ net.code = 400
    /\ net.res.error = Some("Missing prompt")

(***************************************************************************)
(* One run at a time                                                       *)
(***************************************************************************)
C24_InFlight ==
    /\ pc # "idle" => step = 3 /\ error = "" /\ outcome = "running"
    /\ step \in {1, 2, 4} => pc = "idle" /\ net.dir = "none"
    /\ pc = "idle" <=> net.dir = "none"

C24_Step ==
    \* a run starts from step 2 only, and only when none is in progress
    /\ Sends /\ net'.route \in ExtractionRoutes =>
          step = 2 /\ pc = "idle" /\ net.dir = "none" /\ run = NoRun
    \* step 2 is entered from step 1 or from the error view of a failed run
    /\ step # 2 /\ step' = 2 =>
          /\ pc = "idle"
          /\ step = 1 \/ (step = 3 /\ outcome = "failed" /\ error # "")
    \* while a run is in progress only that run writes
    /\ pc # "idle" =>
          /\ UNCHANGED <<file, inputMode, textInput, options, showAdvanced>>
          /\ calls' = calls \/ calls' = Append(calls, pc')
          /\ run'.file = run.file \/ pc' = "idle"

\* C24: a run is in progress only at step 3 with no error shown; a run is
\* started only from step 2 and only while none is in progress; step 2 is
\* entered only from step 1 or from the error view after a run has failed; so
\* the stage calls and the writes of two runs never interleave.
C24_OneRunAtATime == []C24_InFlight /\ [][C24_Step]_vars

C24_Witness ==
    /\ step = 2
    /\ outcome = "failed"
    /\ error # ""
    /\ pc = "idle"
    /\ calls = <<"uploadPDF", "generatePrompt", "generateInfographic">>

(***************************************************************************)
(* Start Over                                                              *)
(***************************************************************************)
C25_Step ==
    \* step 4 offers nothing that changes the state but Start Over
    /\ step = 4 =>
          /\ step' = 1
          /\ file' = None
          /\ pdfText' = <<>>
          /\ resultImage' = ""
          /\ status' = ""
          /\ error' = ""
          /\ UNCHANGED <<options, inputMode, textInput, showAdvanced>>
          /\ UNCHANGED <<pc, run, net>>
    \* the result image and a stored text are cleared nowhere else
    /\ resultImage # "" /\ resultImage' = "" => step = 4
    /\ pdfText # <<>> /\ pdfText' = <<>> => step = 4 \/ pc \in ExtractionStages

\* C25: Start Over is offered at step 4 only; it sets step 1 and clears the
\* file, the extracted text, the result image, the status and the error, and
\* leaves the options, the input mode, the typed text and the
\* advanced-settings toggle as the finished run had them.
C25_ResetFrame == [][C25_Step]_vars

\* after Start Over: options other than the defaults, the advanced settings
\* open and a typed text are still there
C25_Witness ==
    /\ step = 1
    /\ outcome = "complete"
    /\ file = None /\ pdfText = <<>> /\ resultImage = "" /\ status = "" /\ error = ""
    /\ options.language = "English"
    /\ options.styleNotes = "Minimalist design"
    /\ showAdvanced
    /\ textInput = Rep("a", 150)

(***************************************************************************)
(* A rejected file selection                                               *)
(***************************************************************************)
\* the selection fails the size check or the type check
RejectedSelection(f) == f.size > HardCeiling \/ f.type # PdfType

C26_Step ==
    /\ \A f \in Files :
          handleFileUpload(f) =>
              IF RejectedSelection(f)
              THEN /\ file' = file
                   /\ error' \in {ErrTooBig, ErrNotPdf}
                   /\ UNCHANGED <<step, pdfText, inputMode, textInput, options,
                                  showAdvanced, status, resultImage, pc, run, net>>
                   /\ file # None => ~ContinueDisabled'
              ELSE file' = Some(f)
    \* the stored file changes only to an accepted selection, or to none by
    \* Start Over
    /\ file' # file =>
          \/ \E f \in Files : ~RejectedSelection(f) /\ handleFileUpload(f) /\ file' = Some(f)
          \/ step = 4 /\ file' = None
    \* a run uploads the file held
    /\ Sends /\ net'.route = UploadRoute => net'.req.file = file /\ file' = file

\* C26: a selection that fails the size or the type check changes the error
\* message and nothing else, so the file held is the most recent accepted
\* selection (none at the start and after Start Over); Continue stays enabled
\* when a file was held, and a run started then uploads that file.
C26_RejectionKeepsFile == [][C26_Step]_vars

\* the size error of a rejected selection is still shown at step 2 while the
\* file accepted before it is held
C26_Witness ==
    /\ step = 2
    /\ error = ErrTooBig
    /\ file # None
    /\ file[1].name = "small.pdf"
====
